---- MODULE Spec2Model ----
(***************************************************************************)
(* The timer repository of src/lib/timer_store.js: a JSON array of timer   *)
(* records kept under one localStorage key, the verbs of TimerStore over   *)
(* it, and the durationsStore aggregate published by updateDurations.      *)
(*                                                                         *)
(* Time is the wall clock in milliseconds.  Durations are kept in          *)
(* thousandths of a second, so that elapsedSince's division by 1000 is a   *)
(* change of unit and every value stays an integer.  The clock never runs  *)
(* backwards; it may advance between two calls (Tick) and between two      *)
(* clock reads of one call (the parameter k of every operation).           *)
(*                                                                         *)
(* Every method is synchronous: a call is one step, from an idle page to   *)
(* the state in which it has ended, with call and ret telling what was     *)
(* called and how it ended; Idle then hands control back.                  *)
(*                                                                         *)
(* Spec is the single page.  SpecOneTimer is the page driving one timer    *)
(* by start and pause, with ran recording for how long it has run.         *)
(* SpecTwoTabs is two pages over the same key, where the getItem and the   *)
(* setItem of a call are two steps and the other page may run in between.  *)
(***************************************************************************)
EXTENDS Integers, Sequences, FiniteSets, TLC

VARIABLES
    localStorage,    \* the value stored under storeKey
    durationsStore,  \* the Map last given to durationsStore.set
    now,             \* the wall clock, in milliseconds
    call,            \* the call that has just ended; NoCall while the page is idle
    ret,             \* how that call ended: what it returned or the error it raised
    ran,             \* for how long the one timer of SpecOneTimer has run so far
    tabs             \* the two pages of SpecTwoTabs: what each has read and is about to write

vars == <<localStorage, durationsStore, now, call, ret, ran, tabs>>

----------------------------------------------------------------------------
(* Bounds of the model *)

NumIds == 2      \* generateRandomID draws from 1..NumIds; so do id arguments
MaxItems == 2    \* create is not called on a collection of MaxItems entries
MaxTime == 2     \* the clock stops at MaxTime
MaxTabCalls == 2 \* the calls each page of SpecTwoTabs makes

Ids == 1..NumIds
NameArgs == {"x"}
NotesArgs == {"n"}
DurationArgs == {1}

----------------------------------------------------------------------------
(* Values *)

NULL == -1

TimerItemValue(id, name, duration, started_at, notes) ==
    [id |-> id, name |-> name, duration |-> duration,
     started_at |-> started_at, notes |-> notes]

\* an array element that is no object: undefined in memory, null in JSON
Undefined == [undefined |-> TRUE]
NullItem == [null |-> TRUE]

IsHole(item) == item \in {Undefined, NullItem}
HasHole(items) == \E i \in 1..Len(items) : IsHole(items[i])

\* the four shapes of localStorage.getItem(storeKey)
Absent == [tag |-> "absent"]
Malformed == [tag |-> "malformed"]
NonArray == [tag |-> "object"]
JSONstringify(items) ==
    [tag |-> "array",
     items |-> [i \in 1..Len(items) |->
                  IF items[i] = Undefined THEN NullItem ELSE items[i]]]

getItems == localStorage

fetchTimerItemsFromStore ==
    CASE getItems.tag = "absent" -> [status |-> "ok", isArray |-> TRUE, items |-> <<>>]
      [] getItems.tag = "array" -> [status |-> "ok", isArray |-> TRUE, items |-> getItems.items]
      [] getItems.tag = "object" -> [status |-> "ok", isArray |-> FALSE, items |-> <<>>]
      [] OTHER -> [status |-> "SyntaxError", isArray |-> FALSE, items |-> <<>>]

----------------------------------------------------------------------------
(* The clock *)

\* The i-th clock read of a call whose clock advances before read k (k = 0: not at all)
Clock(i, k) == IF k # 0 /\ i >= k THEN now + 1 ELSE now

elapsedSince(date, t) == IF date # NULL THEN t - date ELSE 0

----------------------------------------------------------------------------
(* Helpers of the module *)

\* updateDurations as it would be if it published the stored duration alone
updateDurationsStored(items, base, k) ==
    LET keys == {items[i].id : i \in 1..Len(items)}
        last(id) == CHOOSE i \in 1..Len(items) :
                       /\ items[i].id = id
                       /\ \A j \in 1..Len(items) : items[j].id = id => j <= i
    IN [id \in keys |-> items[last(id)].duration]

\* The Map built by updateDurations: of two entries with one id the later wins.
\* The i-th item's elapsedSince is clock read base + i of the call.
updateDurations(items, base, k) ==
    LET keys == {items[i].id : i \in 1..Len(items)}
        last(id) == CHOOSE i \in 1..Len(items) :
                       /\ items[i].id = id
                       /\ \A j \in 1..Len(items) : items[j].id = id => j <= i
    IN [id \in keys |->
          items[last(id)].duration
            + elapsedSince(items[last(id)].started_at, Clock(base + last(id), k))]

\* setItems writes the array first and then publishes; updateDurations throws
\* a TypeError on the first element that is no object, before durationsStore.set
setItems(items, base, k) ==
    [stored |-> JSONstringify(items),
     threw |-> HasHole(items),
     durations |-> IF HasHole(items) THEN durationsStore
                   ELSE updateDurations(items, base, k)]

convertTimerItem(timer, requestFocus, t) ==
    [id |-> timer.id,
     name |-> timer.name,
     isRunning |-> timer.started_at # NULL,
     duration |-> 0,
     offsetDuration |-> timer.duration + elapsedSince(timer.started_at, t),
     requestFocus |-> requestFocus,
     notes |-> timer.notes]

\* items.map(timer => convertTimerItem(timer)): requestFocus is left undefined
convertAll(items, base, k) ==
    [i \in 1..Len(items) |-> convertTimerItem(items[i], "undefined", Clock(base + i, k))]

\* items.map(timer => convertTimerItem(timer, timer.id === id))
convertAllFocus(items, id, base, k) ==
    [i \in 1..Len(items) |->
        convertTimerItem(items[i], IF items[i].id = id THEN "true" ELSE "false",
                         Clock(base + i, k))]

\* items.findIndex(item => item.id === id): the 1-based index of the first match,
\* 0 when there is none (-1 in the source); reading .id of an element that is
\* no object, met before the first match, throws a TypeError
findIndex(items, id) ==
    LET hits == {i \in 1..Len(items) : ~IsHole(items[i]) /\ items[i].id = id}
        first == IF hits = {} THEN 0
                 ELSE CHOOSE i \in hits : \A j \in hits : i <= j
        holes == {i \in 1..Len(items) : IsHole(items[i])}
    IN [index |-> first,
        threw |-> \E h \in holes : first = 0 \/ h < first]

\* How a call ends: what is stored, what is published, what the caller gets
Threw(error, stored, durations) ==
    [stored |-> stored, durations |-> durations,
     ret |-> [status |-> error, value |-> "none", views |-> <<>>]]

Returned(value, views, stored, durations) ==
    [stored |-> stored, durations |-> durations,
     ret |-> [status |-> "ok", value |-> value, views |-> views]]

\* the name, had the entries been counted without the new one
TimerNameOfCount(n) == "Timer " \o ToString(n - 1)

TimerName(n) == "Timer " \o ToString(n)

----------------------------------------------------------------------------
(* The operations of TimerStore: what each call stores, publishes and returns *)

\* list, had it written the array it read back under the key
listStoring(k) ==
    LET f == fetchTimerItemsFromStore
        items == f.items
    IN IF f.status # "ok" THEN Threw(f.status, localStorage, durationsStore)
       ELSE IF ~f.isArray \/ HasHole(items)
            THEN Threw("TypeError", localStorage, durationsStore)
       ELSE Returned("views", convertAll(items, Len(items), k), JSONstringify(items),
                     updateDurations(items, 0, k))

list(k) ==
    LET f == fetchTimerItemsFromStore
        items == f.items
    IN IF f.status # "ok" THEN Threw(f.status, localStorage, durationsStore)
       ELSE IF ~f.isArray \/ HasHole(items)
            THEN Threw("TypeError", localStorage, durationsStore)
       ELSE Returned("views", convertAll(items, Len(items), k), localStorage,
                     updateDurations(items, 0, k))

\* create, had it put the new record in front
createInFront(id, k) ==
    LET f == fetchTimerItemsFromStore
        newTimer == TimerItemValue(id, TimerName(Len(f.items) + 1), 0, NULL, "")
        items == <<newTimer>> \o f.items
        s == setItems(items, 0, k)
    IN IF f.status # "ok" THEN Threw(f.status, localStorage, durationsStore)
       ELSE IF ~f.isArray THEN Threw("TypeError", localStorage, durationsStore)
       ELSE IF s.threw THEN Threw("TypeError", s.stored, s.durations)
       ELSE Returned("views", convertAllFocus(items, id, Len(items), k),
                     s.stored, s.durations)

create(id, k) ==
    LET f == fetchTimerItemsFromStore
        newTimer == TimerItemValue(id, TimerName(Len(f.items) + 1), 0, NULL, "")
        items == Append(f.items, newTimer)
        s == setItems(items, 0, k)
    IN IF f.status # "ok" THEN Threw(f.status, localStorage, durationsStore)
       ELSE IF ~f.isArray THEN Threw("TypeError", localStorage, durationsStore)
       ELSE IF s.threw THEN Threw("TypeError", s.stored, s.durations)
       ELSE Returned("views", convertAllFocus(items, id, Len(items), k),
                     s.stored, s.durations)

delete(id, k) ==
    LET f == fetchTimerItemsFromStore
        keep(item) == item.id # id
        items == SelectSeq(f.items, keep)
        s == setItems(items, 0, k)
    IN IF f.status # "ok" THEN Threw(f.status, localStorage, durationsStore)
       ELSE IF ~f.isArray \/ HasHole(f.items)
            THEN Threw("TypeError", localStorage, durationsStore)
       ELSE Returned("views", convertAll(items, Len(items), k), s.stored, s.durations)

startItem(item, t) == [item EXCEPT !.started_at = t]

\* pause, had it dropped the running interval
pauseItemDropping(item, t) == [item EXCEPT !.started_at = NULL]

pauseItem(item, t) ==
    [item EXCEPT !.duration = item.duration + elapsedSince(item.started_at, t),
                 !.started_at = NULL]

resetItem(item) == [item EXCEPT !.started_at = NULL, !.duration = 0]

updateNameItem(item, name) == [item EXCEPT !.name = name]

updateNotesItem(item, notes) == [item EXCEPT !.notes = notes]

updateDurationItem(item, duration) == [item EXCEPT !.duration = duration]

\* The callback a verb hands to updateTimerItemInStore, as the verb and the
\* value it closes over; Callback(cb, item, t) is cb(item), its clock read being t
Closure(verb, text, num) == [verb |-> verb, text |-> text, num |-> num]

Callback(cb, item, t) ==
    CASE cb.verb = "start" -> startItem(item, t)
      [] cb.verb = "pause" -> pauseItem(item, t)
      [] cb.verb = "reset" -> resetItem(item)
      [] cb.verb = "updateName" -> updateNameItem(item, cb.text)
      [] cb.verb = "updateNotes" -> updateNotesItem(item, cb.text)
      [] cb.verb = "updateDuration" -> updateDurationItem(item, cb.num)

\* updateTimerItemInStore, had it run the callback on every record
updateEveryTimerItemInStore(id, cb, k) ==
    LET f == fetchTimerItemsFromStore
        found == findIndex(f.items, id)
        items == [i \in 1..Len(f.items) |-> Callback(cb, f.items[i], Clock(1, k))]
        s == setItems(items, 1, k)
    IN IF f.status # "ok" THEN Threw(f.status, localStorage, durationsStore)
       ELSE IF ~f.isArray \/ found.threw
            THEN Threw("TypeError", localStorage, durationsStore)
       ELSE IF found.index = 0
            THEN Returned("null", <<>>, localStorage, durationsStore)
       ELSE IF s.threw THEN Threw("TypeError", s.stored, s.durations)
       ELSE Returned("views", convertAll(items, 1 + Len(items), k), s.stored, s.durations)

\* The callback runs at clock read 1, updateDurations at reads 2..n+1 and the
\* views at reads n+2..2n+1
updateTimerItemInStore(id, cb, k) ==
    LET f == fetchTimerItemsFromStore
        found == findIndex(f.items, id)
        items == [f.items EXCEPT
                    ![found.index] = Callback(cb, f.items[found.index], Clock(1, k))]
        s == setItems(items, 1, k)
    IN IF f.status # "ok" THEN Threw(f.status, localStorage, durationsStore)
       ELSE IF ~f.isArray \/ found.threw
            THEN Threw("TypeError", localStorage, durationsStore)
       ELSE IF found.index = 0
            THEN Returned("null", <<>>, localStorage, durationsStore)
       ELSE IF s.threw THEN Threw("TypeError", s.stored, s.durations)
       ELSE Returned("views", convertAll(items, 1 + Len(items), k), s.stored, s.durations)

start(id, k) == updateTimerItemInStore(id, Closure("start", "", 0), k)

pause(id, k) == updateTimerItemInStore(id, Closure("pause", "", 0), k)

reset(id, k) == updateTimerItemInStore(id, Closure("reset", "", 0), k)

updateName(id, name, k) == updateTimerItemInStore(id, Closure("updateName", name, 0), k)

updateNotes(id, notes, k) == updateTimerItemInStore(id, Closure("updateNotes", notes, 0), k)

updateDuration(id, duration, k) ==
    updateTimerItemInStore(id, Closure("updateDuration", "", duration), k)

\* sortByIds as it would be if it turned away only the longer ids lists
sortByIdsLonger(ids, k) ==
    LET f == fetchTimerItemsFromStore
        storeItems == f.items
        found == [i \in 1..Len(ids) |-> findIndex(storeItems, ids[i])]
        sortedItems == [i \in 1..Len(ids) |->
                          IF found[i].index = 0 THEN Undefined
                          ELSE storeItems[found[i].index]]
        s == setItems(sortedItems, 0, k)
    IN IF f.status # "ok" THEN Threw(f.status, localStorage, durationsStore)
       ELSE IF ~f.isArray \/ Len(ids) > Len(storeItems)
            THEN Returned("undefined", <<>>, localStorage, durationsStore)
       ELSE IF \E i \in 1..Len(ids) : found[i].threw
            THEN Threw("TypeError", localStorage, durationsStore)
       ELSE IF s.threw THEN Threw("TypeError", s.stored, s.durations)
       ELSE Returned("undefined", <<>>, s.stored, s.durations)

\* ids.length != undefined holds for a stored value that is no array
sortByIds(ids, k) ==
    LET f == fetchTimerItemsFromStore
        storeItems == f.items
        found == [i \in 1..Len(ids) |-> findIndex(storeItems, ids[i])]
        sortedItems == [i \in 1..Len(ids) |->
                          IF found[i].index = 0 THEN Undefined
                          ELSE storeItems[found[i].index]]
        s == setItems(sortedItems, 0, k)
    IN IF f.status # "ok" THEN Threw(f.status, localStorage, durationsStore)
       ELSE IF ~f.isArray \/ Len(ids) # Len(storeItems)
            THEN Returned("undefined", <<>>, localStorage, durationsStore)
       ELSE IF \E i \in 1..Len(ids) : found[i].threw
            THEN Threw("TypeError", localStorage, durationsStore)
       ELSE IF s.threw THEN Threw("TypeError", s.stored, s.durations)
       ELSE Returned("undefined", <<>>, s.stored, s.durations)

----------------------------------------------------------------------------
(* The state machine *)

\* The places of one call at which the clock may advance: before its k-th
\* clock read, or not at all (0).  A call on n items makes at most 2n + 2 reads;
\* an advance before the first read is a Tick before the call.
ClockReads ==
    {0} \cup {k \in 2..(2 * Len(fetchTimerItemsFromStore.items) + 2) : now < MaxTime}

\* every ids argument of sortByIds up to the longest collection
IdLists == UNION {[1..n -> Ids] : n \in 0..MaxItems}

Call(op, id, ids, text, num) ==
    [op |-> op, id |-> id, ids |-> ids, text |-> text, num |-> num]

NoCall == Call("none", 0, <<>>, "", 0)
NoReturn == [status |-> "ok", value |-> "undefined", views |-> <<>>]
EmptyMap == [id \in {} |-> 0]

\* A call is made when the page is idle, runs to completion and leaves in
\* call and ret what was called and how it ended.
ApplyCall(c, out, k) ==
    /\ call = NoCall
    /\ localStorage' = out.stored
    /\ durationsStore' = out.durations
    /\ ret' = out.ret
    /\ call' = c
    /\ now' = IF k = 0 THEN now ELSE now + 1

Apply(c, out, k) == ApplyCall(c, out, k) /\ UNCHANGED <<ran, tabs>>

List == \E k \in ClockReads : Apply(Call("list", 0, <<>>, "", 0), list(k), k)

\* generateRandomID: any id, whether or not it is stored already
Create ==
    /\ Len(fetchTimerItemsFromStore.items) < MaxItems
    /\ \E id \in Ids, k \in ClockReads :
          Apply(Call("create", id, <<>>, "", 0), create(id, k), k)

Delete == \E id \in Ids, k \in ClockReads :
             Apply(Call("delete", id, <<>>, "", 0), delete(id, k), k)

Start == \E id \in Ids, k \in ClockReads :
            Apply(Call("start", id, <<>>, "", 0), start(id, k), k)

Pause == \E id \in Ids, k \in ClockReads :
            Apply(Call("pause", id, <<>>, "", 0), pause(id, k), k)

Reset == \E id \in Ids, k \in ClockReads :
            Apply(Call("reset", id, <<>>, "", 0), reset(id, k), k)

UpdateName == \E id \in Ids, name \in NameArgs, k \in ClockReads :
                 Apply(Call("updateName", id, <<>>, name, 0), updateName(id, name, k), k)

UpdateNotes == \E id \in Ids, notes \in NotesArgs, k \in ClockReads :
                  Apply(Call("updateNotes", id, <<>>, notes, 0), updateNotes(id, notes, k), k)

UpdateDuration == \E id \in Ids, duration \in DurationArgs, k \in ClockReads :
                     Apply(Call("updateDuration", id, <<>>, "", duration),
                           updateDuration(id, duration, k), k)

SortByIds == \E ids \in IdLists, k \in ClockReads :
                Apply(Call("sortByIds", 0, ids, "", 0), sortByIds(ids, k), k)

\* the caller has taken the result of the call; the page is idle again
Idle ==
    /\ call # NoCall
    /\ call' = NoCall
    /\ ret' = NoReturn
    /\ UNCHANGED <<localStorage, durationsStore, now, ran, tabs>>

\* time passes between two calls
TickClock ==
    /\ call = NoCall
    /\ now < MaxTime
    /\ now' = now + 1
    /\ UNCHANGED <<localStorage, durationsStore, call, ret>>

Tick == TickClock /\ UNCHANGED <<ran, tabs>>

Tabs == {1, 2}

\* a page that has not called anything yet
IdleTab ==
    [pc |-> "idle", calls |-> 0, call |-> NoCall, read |-> <<>>, items |-> <<>>,
     durations |-> EmptyMap]

\* a fresh page over an empty localStorage: writable(new Map())
Init ==
    /\ localStorage = Absent
    /\ durationsStore = EmptyMap
    /\ now = 0
    /\ call = NoCall
    /\ ret = NoReturn
    /\ ran = 0
    /\ tabs = [t \in Tabs |-> IdleTab]

\* a fresh page over whatever the key holds that is no array of timers
InitAnyValue ==
    /\ localStorage \in {Absent, Malformed, NonArray}
    /\ durationsStore = EmptyMap
    /\ now = 0
    /\ call = NoCall
    /\ ret = NoReturn
    /\ ran = 0
    /\ tabs = [t \in Tabs |-> IdleTab]

Next ==
    \/ List
    \/ Create
    \/ Delete
    \/ Start
    \/ Pause
    \/ Reset
    \/ UpdateName
    \/ UpdateNotes
    \/ UpdateDuration
    \/ SortByIds
    \/ Idle
    \/ Tick

Spec == Init /\ [][Next]_vars

SpecAnyValue == InitAnyValue /\ [][Next]_vars

\* The page without drag and drop: every call but sortByIds
NextNoSort ==
    \/ List
    \/ Create
    \/ Delete
    \/ Start
    \/ Pause
    \/ Reset
    \/ UpdateName
    \/ UpdateNotes
    \/ UpdateDuration
    \/ Idle
    \/ Tick

SpecNoSort == Init /\ [][NextNoSort]_vars

----------------------------------------------------------------------------
(* One timer, created and then started and paused in turn *)

IsRunning(items) ==
    /\ Len(items) = 1
    /\ ~IsHole(items[1])
    /\ items[1].started_at # NULL

IsPaused(items) ==
    /\ Len(items) = 1
    /\ ~IsHole(items[1])
    /\ items[1].started_at = NULL

\* the time of the step counts as run when the step leaves the timer running:
\* start stamps the clock read before it advances, pause folds the interval
\* up to that read
Account ==
    /\ ran' = ran + (IF IsRunning(fetchTimerItemsFromStore'.items) THEN now' - now ELSE 0)
    /\ UNCHANGED tabs

CreateOne ==
    /\ fetchTimerItemsFromStore.items = <<>>
    /\ \E id \in Ids, k \in ClockReads :
          ApplyCall(Call("create", id, <<>>, "", 0), create(id, k), k)
    /\ ran' = 0
    /\ UNCHANGED tabs

StartPaused ==
    /\ IsPaused(fetchTimerItemsFromStore.items)
    /\ \E k \in ClockReads :
          LET id == fetchTimerItemsFromStore.items[1].id
          IN ApplyCall(Call("start", id, <<>>, "", 0), start(id, k), k)
    /\ Account

PauseRunning ==
    /\ IsRunning(fetchTimerItemsFromStore.items)
    /\ \E k \in ClockReads :
          LET id == fetchTimerItemsFromStore.items[1].id
          IN ApplyCall(Call("pause", id, <<>>, "", 0), pause(id, k), k)
    /\ Account

ListOne ==
    /\ \E k \in ClockReads : ApplyCall(Call("list", 0, <<>>, "", 0), list(k), k)
    /\ Account

UpdateNameOne ==
    /\ \E id \in Ids, name \in NameArgs, k \in ClockReads :
          ApplyCall(Call("updateName", id, <<>>, name, 0), updateName(id, name, k), k)
    /\ Account

UpdateNotesOne ==
    /\ \E id \in Ids, notes \in NotesArgs, k \in ClockReads :
          ApplyCall(Call("updateNotes", id, <<>>, notes, 0), updateNotes(id, notes, k), k)
    /\ Account

TickOne == TickClock /\ Account

NextOneTimer ==
    \/ CreateOne
    \/ StartPaused
    \/ PauseRunning
    \/ ListOne
    \/ UpdateNameOne
    \/ UpdateNotesOne
    \/ Idle
    \/ TickOne

SpecOneTimer == Init /\ [][NextOneTimer]_vars

----------------------------------------------------------------------------
(* Two pages over the same key *)

\* the array a call makes of the array it has read: lines 47-48 of create,
\* line 59 of delete, lines 174-179 of updateTimerItemInStore
Mutated(items, c, t) ==
    LET keep(item) == item.id # c.id
        index == findIndex(items, c.id).index
    IN CASE c.op = "create"
              -> Append(items, TimerItemValue(c.id, TimerName(Len(items) + 1), 0, NULL, ""))
         [] c.op = "delete" -> SelectSeq(items, keep)
         [] OTHER -> [items EXCEPT ![index] = Callback(Closure(c.op, "", 0), items[index], t)]

TabCalls ==
    {Call(op, id, <<>>, "", 0) : op \in {"create", "delete", "start", "pause"}, id \in Ids}

\* the value page t would leave under the key, had it read the key again and
\* added its last entry to what is there
tabStoredMerged(t) ==
    LET items == fetchTimerItemsFromStore.items
        mine == tabs[t].items
    IN IF tabs[t].call.op = "create"
       THEN JSONstringify(Append(items, mine[Len(mine)]))
       ELSE JSONstringify(mine)

\* localStorage.setItem(storeKey, JSON.stringify(items)) of page t
tabStored(t) == JSONstringify(tabs[t].items)

\* getItem, JSON.parse and the change made in memory; a start or pause of an
\* id that is not stored returns null with nothing to write
TabRead(t) ==
    /\ tabs[t].pc = "idle"
    /\ tabs[t].calls < MaxTabCalls
    /\ \E c \in TabCalls :
          LET items == fetchTimerItemsFromStore.items
          IN /\ c.op = "create" => Len(items) < MaxItems
             /\ c.op \in {"start", "pause"} => findIndex(items, c.id).index # 0
             /\ tabs' = [tabs EXCEPT ![t] =
                           [pc |-> "write", calls |-> tabs[t].calls + 1,
                            call |-> c, read |-> items,
                            items |-> Mutated(items, c, now),
                            durations |-> tabs[t].durations]]
    /\ UNCHANGED <<localStorage, durationsStore, now, call, ret, ran>>

\* setItems: the whole array goes under the key and the page's own
\* durationsStore is set
TabWrite(t) ==
    /\ tabs[t].pc = "write"
    /\ localStorage' = tabStored(t)
    /\ tabs' = [tabs EXCEPT ![t].pc = "idle",
                            ![t].durations = updateDurations(tabs[t].items, 0, 0)]
    /\ UNCHANGED <<durationsStore, now, call, ret, ran>>

NextTwoTabs ==
    \/ \E t \in Tabs : TabRead(t)
    \/ \E t \in Tabs : TabWrite(t)
    \/ Tick

SpecTwoTabs == Init /\ [][NextTwoTabs]_vars

----------------------------------------------------------------------------
(* What the claims speak of *)

\* the persisted collection, empty while the key is absent
Items == fetchTimerItemsFromStore.items

Verbs == {"start", "pause", "reset", "updateName", "updateNotes", "updateDuration"}

\* some stored record has this id
HasId(items, id) == \E i \in 1..Len(items) : ~IsHole(items[i]) /\ items[i].id = id

\* the place of the first stored record with this id
FirstWithId(items, id) ==
    CHOOSE i \in 1..Len(items) :
        /\ ~IsHole(items[i]) /\ items[i].id = id
        /\ \A j \in 1..(i - 1) : IsHole(items[j]) \/ items[j].id # id

UniqueIds(items) ==
    \A i, j \in 1..Len(items) :
        (i # j /\ ~IsHole(items[i]) /\ ~IsHole(items[j])) => items[i].id # items[j].id

----------------------------------------------------------------------------
(* C1 *)

\* C1: in every state reached from an absent store, no two records of the
\* persisted collection have the same id.
C1_IdsAreUnique == UniqueIds(Items)

----------------------------------------------------------------------------
(* C2 *)

\* C2: start, pause, reset, updateName, updateNotes and updateDuration called
\* with an id that matches no stored record return null, raise no error and
\* leave the persisted value as it was.
C2_UnknownIdIsQuietNoOp ==
    [][(call'.op \in Verbs /\ ~HasId(Items, call'.id))
         => (/\ ret'.status = "ok"
             /\ ret'.value = "null"
             /\ localStorage' = localStorage)]_vars

\* C2 on a collection in which every element is a timer record
C2_OnRecords ==
    [][(call'.op \in Verbs /\ ~HasId(Items, call'.id) /\ ~HasHole(Items))
         => (/\ ret'.status = "ok"
             /\ ret'.value = "null"
             /\ localStorage' = localStorage)]_vars

----------------------------------------------------------------------------
(* C3 *)

\* C3: from an absent store, whatever was called before and with whatever
\* arguments, no call raises an error and every element of the persisted
\* collection is a timer record.
C3_NoCrashPath == ret.status = "ok" /\ ~HasHole(Items)

----------------------------------------------------------------------------
(* C4 *)

NotAnArray == {"absent", "malformed", "object"}

\* C4 (under SpecAnyValue): while the stored value is absent or is no JSON
\* array, no call raises an error, list() returns the empty list and create()
\* returns one timer, named "Timer 1".
C4_NoArrayIsNoTimers ==
    [][(call'.op # "none" /\ localStorage.tag \in NotAnArray)
         => (/\ ret'.status = "ok"
             /\ call'.op = "list" => (ret'.value = "views" /\ ret'.views = <<>>)
             /\ call'.op = "create" =>
                   (/\ ret'.value = "views"
                    /\ Len(ret'.views) = 1
                    /\ ret'.views[1].name = "Timer 1"))]_vars

----------------------------------------------------------------------------
(* C5, C6, C7: pause, reset and start on a stored record *)

\* C5: pause(id) on a stored record sets its duration to the previous duration
\* plus the time elapsed since startedAt when it was running, leaves the
\* duration alone when it was paused, and leaves startedAt null.
C5_PauseFoldsElapsed ==
    [][(call'.op = "pause" /\ HasId(Items, call'.id))
         => LET i == FirstWithId(Items, call'.id)
            IN /\ Len(Items') = Len(Items)
               /\ Items'[i].started_at = NULL
               /\ \E t \in now..now' :
                     Items'[i].duration
                       = Items[i].duration + elapsedSince(Items[i].started_at, t)]_vars

\* C6: reset(id) on a stored record leaves it with duration 0 and startedAt
\* null, running or not: its live total right after the call is 0.
C6_ResetDiscards ==
    [][(call'.op = "reset" /\ HasId(Items, call'.id))
         => LET i == FirstWithId(Items, call'.id)
            IN /\ Len(Items') = Len(Items)
               /\ Items'[i].duration = 0
               /\ Items'[i].started_at = NULL
               /\ Items'[i].duration + elapsedSince(Items'[i].started_at, now') = 0]_vars

\* C7: start(id) on a stored record sets startedAt to the current time and
\* leaves its duration, name and notes alone; on a running timer the earlier
\* startedAt is overwritten and nothing is added to the duration.
C7_StartStampsNow ==
    [][(call'.op = "start" /\ HasId(Items, call'.id))
         => LET i == FirstWithId(Items, call'.id)
            IN /\ Len(Items') = Len(Items)
               /\ Items'[i].started_at \in now..now'
               /\ Items'[i].duration = Items[i].duration
               /\ Items'[i].name = Items[i].name
               /\ Items'[i].notes = Items[i].notes]_vars

\* C5 on a collection in which every element is a timer record
C5_OnRecords ==
    [][(call'.op = "pause" /\ HasId(Items, call'.id) /\ ~HasHole(Items))
         => LET i == FirstWithId(Items, call'.id)
            IN /\ Len(Items') = Len(Items)
               /\ Items'[i].started_at = NULL
               /\ \E t \in now..now' :
                     Items'[i].duration
                       = Items[i].duration + elapsedSince(Items[i].started_at, t)]_vars

\* C6 on a collection in which every element is a timer record
C6_OnRecords ==
    [][(call'.op = "reset" /\ HasId(Items, call'.id) /\ ~HasHole(Items))
         => LET i == FirstWithId(Items, call'.id)
            IN /\ Len(Items') = Len(Items)
               /\ Items'[i].duration = 0
               /\ Items'[i].started_at = NULL]_vars

\* C7 on a collection in which every element is a timer record
C7_OnRecords ==
    [][(call'.op = "start" /\ HasId(Items, call'.id) /\ ~HasHole(Items))
         => LET i == FirstWithId(Items, call'.id)
            IN /\ Len(Items') = Len(Items)
               /\ Items'[i].started_at \in now..now'
               /\ Items'[i].duration = Items[i].duration
               /\ Items'[i].name = Items[i].name
               /\ Items'[i].notes = Items[i].notes]_vars

----------------------------------------------------------------------------
(* C8, C9: the views of list and the published aggregate *)

\* the live total of a record at one of the clock reads of the step
IsLiveTotal(value, item) ==
    \E t \in now..now' : value = item.duration + elapsedSince(item.started_at, t)

\* C8: list() returns one view per stored record, in stored order, with
\* isRunning = (startedAt is not null) and offsetDuration the record's live
\* total, and the aggregate published by the call holds that live total under
\* the record's id.
C8_ListViews ==
    [][call'.op = "list"
         => /\ ret'.status = "ok"
            /\ ret'.value = "views"
            /\ Len(ret'.views) = Len(Items)
            /\ \A i \in 1..Len(Items) :
                  /\ ~IsHole(Items[i])
                  /\ ret'.views[i].id = Items[i].id
                  /\ ret'.views[i].isRunning = (Items[i].started_at # NULL)
                  /\ IsLiveTotal(ret'.views[i].offsetDuration, Items[i])
                  /\ Items[i].id \in DOMAIN durationsStore'
                  /\ IsLiveTotal(durationsStore'[Items[i].id], Items[i])]_vars

\* C8 on a collection of timer records with distinct ids
C8_OnDistinctRecords ==
    [][(call'.op = "list" /\ ~HasHole(Items) /\ UniqueIds(Items))
         => /\ ret'.status = "ok"
            /\ ret'.value = "views"
            /\ Len(ret'.views) = Len(Items)
            /\ \A i \in 1..Len(Items) :
                  /\ ret'.views[i].id = Items[i].id
                  /\ ret'.views[i].isRunning = (Items[i].started_at # NULL)
                  /\ IsLiveTotal(ret'.views[i].offsetDuration, Items[i])
                  /\ Items[i].id \in DOMAIN durationsStore'
                  /\ IsLiveTotal(durationsStore'[Items[i].id], Items[i])]_vars

StoredIds(items) == {items[i].id : i \in {j \in 1..Len(items) : ~IsHole(items[j])}}

\* C9: immediately after any call the published aggregate has exactly the ids
\* of the persisted collection as its keys and maps each id to that record's
\* live total.  Stated here for the calls that raise no error on a collection
\* of timer records with distinct ids only, where C1 and C3 do not bear on it.
C9_AggregateAfterEveryCall ==
    [][(/\ call'.op # "none" /\ ret'.status = "ok"
        /\ ~HasHole(Items) /\ UniqueIds(Items) /\ UniqueIds(Items'))
         => /\ DOMAIN durationsStore' = StoredIds(Items')
            /\ \A i \in 1..Len(Items') :
                  ~IsHole(Items'[i])
                     => IsLiveTotal(durationsStore'[Items'[i].id], Items'[i])]_vars

\* the call of the step ran updateDurations to its end
Republishes ==
    /\ ret'.status = "ok"
    /\ \/ ret'.value = "views"
       \/ /\ call'.op = "sortByIds"
          /\ localStorage.tag \in {"absent", "array"}
          /\ Len(call'.ids) = Len(Items)

\* the last stored record with this id
LastWithId(items, id) ==
    CHOOSE i \in 1..Len(items) :
        /\ items[i].id = id
        /\ \A j \in (i + 1)..Len(items) : items[j].id # id

\* C9, amended: a call that returns views, and a sortByIds of the stored
\* length that raises no error, replace the aggregate: it then has exactly the
\* ids of the persisted collection as keys and maps each id to the live total
\* of the last stored record with that id.  Every other call (one that returns
\* null, a sortByIds of another length, one that raises an error) leaves the
\* aggregate as it was.
C9_AggregateAfterPublishingCall ==
    [][call'.op # "none"
         => IF Republishes
            THEN /\ ~HasHole(Items')
                 /\ DOMAIN durationsStore' = StoredIds(Items')
                 /\ \A id \in StoredIds(Items') :
                       IsLiveTotal(durationsStore'[id], Items'[LastWithId(Items', id)])
            ELSE durationsStore' = durationsStore]_vars

\* list has just published the total of a timer that has run for a while
C9_Witness ==
    /\ call.op = "list"
    /\ ret.value = "views"
    /\ \E i \in 1..Len(Items) :
          /\ Items[i].started_at # NULL
          /\ durationsStore[Items[i].id] > Items[i].duration

----------------------------------------------------------------------------
(* C10 *)

\* C10: sortByIds(ids) with ids.length different from the number of stored
\* records raises no error and leaves the persisted value as it was.
C10_LengthMismatchIsNoOp ==
    [][(call'.op = "sortByIds" /\ Len(call'.ids) # Len(Items))
         => (ret'.status = "ok" /\ localStorage' = localStorage)]_vars

\* sortByIds has returned from one id given for two stored timers
C10_Witness ==
    /\ call.op = "sortByIds"
    /\ Len(call.ids) = 1
    /\ Len(Items) = 2
    /\ ~HasHole(Items)
    /\ UniqueIds(Items)
    /\ ret.status = "ok"

----------------------------------------------------------------------------
(* C11 *)

\* the items whose id is not id, in their order
Without(items, id) ==
    LET keep(item) == IsHole(item) \/ item.id # id
    IN SelectSeq(items, keep)

C11_OnRecords ==
    [][(call'.op = "delete" /\ ~HasHole(Items))
         => /\ ret'.status = "ok"
            /\ ret'.value = "views"
            /\ Items' = Without(Items, call'.id)
            /\ ~HasId(Items', call'.id)
            /\ Len(ret'.views) = Len(Items')
            /\ \A i \in 1..Len(Items') : ret'.views[i].id = Items'[i].id
            /\ ~HasId(Items, call'.id) => Items' = Items]_vars

----------------------------------------------------------------------------
(* C12 *)

\* C12: create() appends exactly one entry at the end of the persisted
\* collection, a record with duration 0, startedAt null, empty notes and the
\* name "Timer N", N being the number of entries stored before the call plus
\* 1, and leaves the earlier entries as they were.
C12_CreateAppends ==
    [][call'.op = "create"
         => /\ Len(Items') = Len(Items) + 1
            /\ SubSeq(Items', 1, Len(Items)) = Items
            /\ Items'[Len(Items')]
                 = [id |-> call'.id, name |-> TimerName(Len(Items) + 1),
                    duration |-> 0, started_at |-> NULL, notes |-> ""]]_vars

\* the second create on an empty store has stored Timer 1 and Timer 2, in
\* that order
C12_Witness ==
    /\ call.op = "create"
    /\ ret.status = "ok"
    /\ Len(Items) = 2
    /\ Items[1].name = "Timer 1"
    /\ Items[2].name = "Timer 2"
    /\ Items[2].duration = 0
    /\ Items[2].started_at = NULL

----------------------------------------------------------------------------
(* C14 *)

\* the record as the update call of the step leaves it
Updated(item, c) ==
    CASE c.op = "updateName" -> [item EXCEPT !.name = c.text]
      [] c.op = "updateNotes" -> [item EXCEPT !.notes = c.text]
      [] c.op = "updateDuration" -> [item EXCEPT !.duration = c.num]

Updates == {"updateName", "updateNotes", "updateDuration"}

\* C14: updateName, updateNotes and updateDuration on a stored record
\* overwrite the named field with the given value and leave its other fields
\* alone; updateDuration on a running timer leaves startedAt set.
C14_UpdateOverwritesOneField ==
    [][(call'.op \in Updates /\ HasId(Items, call'.id))
         => LET i == FirstWithId(Items, call'.id)
            IN /\ Len(Items') = Len(Items)
               /\ Items'[i] = Updated(Items[i], call')]_vars

\* C14 on a collection in which every element is a timer record
C14_OnRecords ==
    [][(call'.op \in Updates /\ HasId(Items, call'.id) /\ ~HasHole(Items))
         => LET i == FirstWithId(Items, call'.id)
            IN /\ Len(Items') = Len(Items)
               /\ Items'[i] = Updated(Items[i], call')]_vars

----------------------------------------------------------------------------
(* C15 *)

\* C15: list() leaves the value stored under the key as it was, the absent
\* key included, whatever runs.
C15_ListDoesNotWrite ==
    [][call'.op = "list" => localStorage' = localStorage]_vars

\* list has returned the view of a running timer
C15_Witness ==
    /\ call.op = "list"
    /\ ret.value = "views"
    /\ \E i \in 1..Len(ret.views) : ret.views[i].isRunning /\ ret.views[i].offsetDuration > 0

----------------------------------------------------------------------------
(* C16 *)

\* how often x occurs in items
Count(items, x) == Cardinality({i \in 1..Len(items) : items[i] = x})

SameRecords(a, b) ==
    /\ Len(a) = Len(b)
    /\ \A i \in 1..Len(a) : Count(a, a[i]) = Count(b, a[i])

IsPermutation(ids, items) ==
    /\ Len(ids) = Len(items)
    /\ ~HasHole(items)
    /\ \A i \in 1..Len(items) : Count(ids, items[i].id) = 1

\* C16: sortByIds with ids of the stored length leaves the same records in
\* the persisted collection, each as often as before and with its fields, and
\* with ids a permutation of the stored ids the i-th record is that of ids[i].
C16_SortOnlyReorders ==
    [][(call'.op = "sortByIds" /\ Len(call'.ids) = Len(Items))
         => /\ SameRecords(Items', Items)
            /\ IsPermutation(call'.ids, Items)
                  => \A i \in 1..Len(Items) : Items'[i].id = call'.ids[i]]_vars

\* C16 for the ids that are a permutation of the distinct stored ids
C16_OnPermutations ==
    [][(/\ call'.op = "sortByIds"
        /\ IsPermutation(call'.ids, Items)
        /\ UniqueIds(Items))
         => /\ ret'.status = "ok"
            /\ SameRecords(Items', Items)
            /\ \A i \in 1..Len(Items) : Items'[i].id = call'.ids[i]]_vars

----------------------------------------------------------------------------
(* C18 *)

\* C18: start, pause, reset, updateName, updateNotes and updateDuration keep
\* the number and the order of the persisted entries and every entry but the
\* first record whose id is the argument.
C18_VerbsTouchOneRecord ==
    [][call'.op \in Verbs
         => /\ Len(Items') = Len(Items)
            /\ \A j \in 1..Len(Items) :
                  (HasId(Items, call'.id) => j # FirstWithId(Items, call'.id))
                     => Items'[j] = Items[j]]_vars

\* pause has stopped one of two running timers; the other still runs
C18_Witness ==
    /\ call.op = "pause"
    /\ ret.value = "views"
    /\ Len(Items) = 2
    /\ UniqueIds(Items)
    /\ \E i, j \in 1..2 :
          /\ Items[i].id = call.id
          /\ Items[i].started_at = NULL
          /\ Items[i].duration > 0
          /\ Items[j].started_at # NULL

----------------------------------------------------------------------------
(* C13 *)

\* the name "Timer n" as the specification writes it
DefaultName(n) == "Timer " \o ToString(n)

IsDefaultName(name) == \E n \in 1..MaxItems : name = DefaultName(n)

\* C13: the default name is "Timer N" with N the creation order, so no two
\* stored timers that were never renamed have the same default name.
C13_DefaultNamesDiffer ==
    \A i, j \in 1..Len(Items) :
        (i # j /\ IsDefaultName(Items[i].name)) => Items[i].name # Items[j].name

\* C13, amended: create names the record "Timer N" with N the number of
\* entries stored at that moment plus 1; as long as the list is not
\* reordered, a record that was never renamed and is now at position p has
\* N >= p.
C13_NameCountsStoredEntries ==
    [][/\ (call'.op = "create" /\ ret'.status = "ok")
            => Items'[Len(Items')].name = DefaultName(Len(Items) + 1)
       /\ \A p \in 1..Len(Items') :
             IsDefaultName(Items'[p].name)
                => \E n \in p..MaxItems : Items'[p].name = DefaultName(n)]_vars

\* create, create, delete of the first and create again: both stored timers
\* are named Timer 2
C13_Witness ==
    /\ call.op = "create"
    /\ ret.status = "ok"
    /\ Len(Items) = 2
    /\ UniqueIds(Items)
    /\ Items[1].name = "Timer 2"
    /\ Items[2].name = "Timer 2"

----------------------------------------------------------------------------
(* C17 *)

\* C17: for a timer created and then started only while paused and paused
\* only while running, with no reset and no updateDuration, the stored
\* duration after each pause is the sum of the lengths of the intervals in
\* which it ran, and while it runs duration + (now - startedAt) is that sum
\* with the current interval up to now.
C17_DurationIsTimeRun ==
    \A i \in 1..Len(Items) :
        /\ Items[i].duration + elapsedSince(Items[i].started_at, now) = ran
        /\ Items[i].started_at = NULL => Items[i].duration = ran

\* the timer ran for 1, was paused, was started again and has run for 1 more
C17_Witness ==
    /\ Len(Items) = 1
    /\ Items[1].duration = 1
    /\ Items[1].started_at # NULL
    /\ now - Items[1].started_at = 1
    /\ ran = 2

----------------------------------------------------------------------------
(* C19 *)

\* C19: when a page writes, the persisted collection becomes the array that
\* page made of what it had read, whatever the other page has written since
\* (the last write wins); when nothing was written between its read and its
\* write the collection is the stored one with that page's change.
C19_LastWriteWins ==
    [][\A t \in Tabs :
          (tabs[t].pc = "write" /\ tabs'[t].pc = "idle")
             => /\ Items' = tabs[t].items
                /\ Items = tabs[t].read
                     => \E u \in 0..now : Items' = Mutated(Items, tabs[t].call, u)]_vars

\* both pages have read the empty store, both have written their create:
\* one record is stored, the other page's is lost
C19_Witness ==
    /\ \A t \in Tabs :
          /\ tabs[t].pc = "idle"
          /\ tabs[t].call.op = "create"
          /\ tabs[t].read = <<>>
    /\ tabs[1].call.id # tabs[2].call.id
    /\ Len(Items) = 1

====
